---- MODULE Spec2Model ----
(***************************************************************************)
(* Model of the anis renderer: the Context object of src/src/context.rs    *)
(* (size, surface configuration, projection, rectangle batch, texture      *)
(* list and texture bind group) and the winit event handler of             *)
(* src/src/lib.rs that drives it.                                          *)
(*                                                                         *)
(* Collaborators (wgpu device/queue/surface, winit window and event loop,  *)
(* the image decoder) are modelled by what the handlers ask of them: the   *)
(* calls a handler makes are recorded in `calls`, GPU-side contents the    *)
(* calls write are kept in projection_buffer, rectangles_buffer and        *)
(* textures_bind_group.  wgpu reports a validation error through the       *)
(* device's uncaptured-error handler; the repository installs none, so     *)
(* the default one panics: such a call ends the handler with panicked set. *)
(***************************************************************************)
EXTENDS Integers, Sequences, FiniteSets, TLC

(***************************************************************************)
(* Bounds of the model.                                                    *)
(***************************************************************************)
\* The texture slot count: 1000 in context.rs (lines 85, 237, 248, 461),
\* scaled down so that the full array is reached.
TextureSlots == 2
\* The rectangle storage buffer's record capacity: 10000 in context.rs
\* (line 158), scaled down so that an over-long batch is reached.
RectangleCapacity == 3
\* Window widths and heights range over 0..MaxDim.
MaxDim == 2

(***************************************************************************)
(* Exact rationals <<n, d>> with d > 0 in lowest terms stand for the f32   *)
(* values of the projection matrix.                                        *)
(***************************************************************************)
RECURSIVE Gcd(_, _)
Gcd(a, b) == IF b = 0 THEN a ELSE Gcd(b, a % b)

Abs(a) == IF a < 0 THEN -a ELSE a

\* A zero denominator gives what f32 division gives: <<1, 0>> and <<-1, 0>>
\* are the infinities, <<0, 0>> is NaN.
Frac(n, d) ==
    IF d = 0
    THEN <<(IF n > 0 THEN 1 ELSE IF n < 0 THEN -1 ELSE 0), 0>>
    ELSE LET g == Gcd(Abs(n), Abs(d))
             s == IF d < 0 THEN -1 ELSE 1
         IN  <<(s * n) \div g, (s * d) \div g>>

FracInt(n) == <<n, 1>>
FracAdd(p, q) == Frac(p[1] * q[2] + q[1] * p[2], p[2] * q[2])
FracMul(p, q) == Frac(p[1] * q[1], p[2] * q[2])

\* A Matrix4 is held as cgmath holds it: four columns of four entries,
\* m[c][r] being column c, row r.

\* cgmath::Matrix4::new takes its sixteen arguments column by column, so the
\* four source lines of the constant are its four columns.
OPENGL_TO_WGPU_MATRIX ==
    << <<FracInt(1), FracInt(0), FracInt(0), FracInt(0)>>,
       <<FracInt(0), FracInt(1), FracInt(0), FracInt(0)>>,
       <<FracInt(0), FracInt(0), Frac(1, 2), Frac(1, 2)>>,
       <<FracInt(0), FracInt(0), FracInt(0), FracInt(1)>> >>

\* cgmath::ortho(left, right, bottom, top, near, far)
ortho(left, right, bottom, top, near, far) ==
    << <<Frac(2, right - left), FracInt(0), FracInt(0), FracInt(0)>>,
       <<FracInt(0), Frac(2, top - bottom), FracInt(0), FracInt(0)>>,
       <<FracInt(0), FracInt(0), Frac(-2, far - near), FracInt(0)>>,
       <<Frac(-(right + left), right - left),
         Frac(-(top + bottom), top - bottom),
         Frac(-(far + near), far - near),
         FracInt(1)>> >>

\* Matrix4 * Matrix4: (a * b)[c][r] = sum over k of a[k][r] * b[c][k]
MatMul(a, b) ==
    [c \in 1..4 |->
        [r \in 1..4 |->
            FracAdd(FracAdd(FracMul(a[1][r], b[c][1]), FracMul(a[2][r], b[c][2])),
                    FracAdd(FracMul(a[3][r], b[c][3]), FracMul(a[4][r], b[c][4])))]]

\* The transmute of [[f32; 4]; 4] to [u8; 64] lays the columns out one after
\* the other; the sixteen 4-byte groups are kept as the sixteen values, group
\* 4 * (c - 1) + r holding column c, row r.
ColumnMajorBytes(m) == [i \in 1..16 |-> m[((i - 1) \div 4) + 1][((i - 1) % 4) + 1]]

\* The projection with bottom and top exchanged (y up).
calculate_projection_matrix_y_up(window_width, window_height) ==
    ColumnMajorBytes(
        MatMul(OPENGL_TO_WGPU_MATRIX,
               ortho(0, window_width, 0, window_height, -1, 1)))

calculate_projection_matrix(window_width, window_height) ==
    ColumnMajorBytes(
        MatMul(OPENGL_TO_WGPU_MATRIX,
               ortho(0, window_width, window_height, 0, -1, 1)))


\* calculate_projection_matrix over the window sizes of the model, computed
\* once.
Projections ==
    [w \in 0..MaxDim, h \in 0..MaxDim |-> calculate_projection_matrix(w, h)]

(***************************************************************************)
(* Data                                                                    *)
(***************************************************************************)
PhysicalSize(w, h) == [width |-> w, height |-> h]

\* struct RectangleDrawData; the f32 colour components are exact rationals.
RectangleDrawData(pos, sz, color) ==
    [pos |-> pos, size |-> sz, color |-> color, padding |-> <<0, 0, 0, 0>>]

\* The batch Context::new starts with.
InitialRectangles ==
    << RectangleDrawData(<<10, 10>>, <<100, 100>>,
                         <<FracInt(1), FracInt(1), FracInt(1)>>),
       RectangleDrawData(<<120, 20>>, <<100, 100>>,
                         <<FracInt(1), Frac(1, 2), FracInt(1)>>),
       RectangleDrawData(<<230, 50>>, <<100, 150>>,
                         <<Frac(2, 5), Frac(3, 10), Frac(3, 10)>>) >>

\* The records the application pushes onto the public batch.
PushedRectangles ==
    { RectangleDrawData(<<0, 0>>, <<50, 50>>,
                        <<FracInt(0), FracInt(1), FracInt(0)>>) }

\* wgpu zero-initialises a buffer created without contents.
ZeroRectangle ==
    [pos |-> <<0, 0>>, size |-> <<0, 0>>,
     color |-> <<FracInt(0), FracInt(0), FracInt(0)>>, padding |-> <<0, 0, 0, 0>>]

\* Decoded images handed to registration, and the files behind the paths.
Images == {"imgA"}
Paths == {"missing.png", "corrupt.png", "a.png"}
BlankImage == "blank1x1"

\* struct Texture: the GPU texture and its view, both named by the number of
\* the device's create_texture call that made them.
Texture(id, data) == [wgpu_texture |-> id, wgpu_texture_view |-> id, data |-> data]

\* A call made on a collaborator.
Call(fn, a, b) == [fn |-> fn, a |-> a, b |-> b]

\* Results of the handlers.
Unit == [kind |-> "unit", handle |-> -1, msg |-> ""]
Ok(h) == [kind |-> "ok", handle |-> h, msg |-> ""]
Err(m) == [kind |-> "err", handle |-> -1, msg |-> m]
Panic(m) == [kind |-> "panic", handle |-> -1, msg |-> m]

\* Events of the window and calls of the application.
Event(kind, w, h, arg, arg2) ==
    [kind |-> kind, width |-> w, height |-> h, arg |-> arg, arg2 |-> arg2]

SurfaceErrors == {"Lost", "Outdated", "OutOfMemory", "Timeout"}
Acquisitions == {"Ok"} \cup SurfaceErrors
Keys == {"Escape", "KeyA"}
ElementStates == {"Pressed", "Released"}
Dims == 0..MaxDim

VARIABLES
    size,                    \* Context.size
    config,                  \* Context.config (width and height)
    surface,                 \* the configuration last applied to the surface
    projection_matrix_bytes, \* Context.projection_matrix_bytes
    projection_buffer,       \* contents of Context.projection_buffer
    rectangles_to_render,    \* Context.rectangles_to_render
    rectangles_buffer,       \* contents of Context.rectangles_buffer
    textures,                \* Context.textures
    textures_bind_group,     \* the views Context.textures_bind_group holds
    device_textures,         \* number of textures the device has created
    calls,                   \* collaborator calls of the last handler, in order
    result,                  \* what the last handler returned
    handled,                 \* the event or call handled last
    issued,                  \* handles returned by registrations, in order
    redraw_requested,        \* the window has a redraw pending
    exit_requested,          \* event_loop.exit() has been called
    panicked                 \* a handler panicked

vars == <<size, config, surface, projection_matrix_bytes, projection_buffer,
          rectangles_to_render, rectangles_buffer, textures, textures_bind_group,
          device_textures, calls, result, handled, issued, redraw_requested,
          exit_requested, panicked>>

\* The Context and what its collaborators hold, as one value.
Self ==
    [size |-> size, config |-> config, surface |-> surface,
     projection_matrix_bytes |-> projection_matrix_bytes,
     projection_buffer |-> projection_buffer,
     rectangles_to_render |-> rectangles_to_render,
     rectangles_buffer |-> rectangles_buffer,
     textures |-> textures, textures_bind_group |-> textures_bind_group,
     device_textures |-> device_textures,
     calls |-> <<>>, result |-> Unit,
     redraw_requested |-> redraw_requested,
     exit_requested |-> exit_requested, panicked |-> panicked]

Becomes(s) ==
    /\ size' = s.size
    /\ config' = s.config
    /\ surface' = s.surface
    /\ projection_matrix_bytes' = s.projection_matrix_bytes
    /\ projection_buffer' = s.projection_buffer
    /\ rectangles_to_render' = s.rectangles_to_render
    /\ rectangles_buffer' = s.rectangles_buffer
    /\ textures' = s.textures
    /\ textures_bind_group' = s.textures_bind_group
    /\ device_textures' = s.device_textures
    /\ calls' = s.calls
    /\ result' = s.result
    /\ redraw_requested' = s.redraw_requested
    /\ exit_requested' = s.exit_requested
    /\ panicked' = s.panicked

Called(self, c) == [self EXCEPT !.calls = Append(@, c)]

(***************************************************************************)
(* Collaborators                                                           *)
(***************************************************************************)
\* A write that copies what fits and drops the rest.
write_buffer_truncating(buffer, offset, data) ==
    [ok |-> TRUE,
     contents |-> [i \in 1..Len(buffer) |->
                      IF i > offset /\ i <= offset + Len(data)
                      THEN data[i - offset] ELSE buffer[i]]]

\* Queue::write_buffer(buffer, offset, data), in records: wgpu validates the
\* range against the buffer's size before anything is copied.
write_buffer(buffer, offset, data) ==
    IF offset + Len(data) > Len(buffer)
    THEN [ok |-> FALSE, contents |-> buffer]
    ELSE [ok |-> TRUE,
          contents |-> [i \in 1..Len(buffer) |->
                           IF i > offset /\ i <= offset + Len(data)
                           THEN data[i - offset] ELSE buffer[i]]]

\* Device::create_bind_group for the texture array: the layout declares
\* `count` views (NonZeroU32::new(1000) in Context::new) and the device was
\* asked for TEXTURE_BINDING_ARRAY alone, so wgpu accepts exactly `count`.
create_bind_group(count, texture_views) ==
    IF Len(texture_views) = count
    THEN [ok |-> TRUE, views |-> texture_views]
    ELSE [ok |-> FALSE, views |-> <<>>]

\* Surface::configure(device, config)
surface_configure(cfg) ==
    [configured |-> TRUE, width |-> cfg.width, height |-> cfg.height]

\* image::io::Reader::open(path) and Reader::decode()
Reader_open(path) ==
    IF path = "missing.png" THEN [is_err |-> TRUE, file |-> ""]
    ELSE [is_err |-> FALSE, file |-> path]

Reader_decode(file) ==
    IF file = "corrupt.png" THEN [is_err |-> TRUE, image |-> ""]
    ELSE [is_err |-> FALSE, image |-> "imgA"]

(***************************************************************************)
(* context.rs                                                              *)
(***************************************************************************)
\* fn create_texture_from_raw_data(device, queue, data) -> Texture
create_texture_from_raw_data(self, data) ==
    [self |-> [self EXCEPT
                  !.device_textures = @ + 1,
                  !.calls = @ \o << Call("device.create_texture", self.device_textures, 0),
                                    Call("queue.write_texture", self.device_textures, 0),
                                    Call("texture.create_view", self.device_textures, 0) >>],
     texture |-> Texture(self.device_textures, data)]

\* Context.empty_texture, the first texture Context::new creates.
empty_texture == Texture(0, BlankImage)

resize_applies_width_only(new_size) == new_size.width > 0

\* The condition under which Context::resize acts.
resize_applies(new_size) == new_size.width > 0 /\ new_size.height > 0

\* A resize that reconfigures the surface and leaves the projection alone.
resize_without_projection(self, new_size) ==
    IF resize_applies(new_size)
    THEN LET cfg == [self.config EXCEPT !.width = new_size.width,
                                        !.height = new_size.height]
         IN  [self EXCEPT
                 !.size = new_size,
                 !.config = cfg,
                 !.surface = surface_configure(cfg),
                 !.calls = @ \o << Call("surface.configure", cfg.width, cfg.height) >>]
    ELSE self

\* A resize that also drops the batch collected for the old size.
resize_dropping_batch(self, new_size) ==
    IF resize_applies(new_size)
    THEN LET cfg == [self.config EXCEPT !.width = new_size.width,
                                        !.height = new_size.height]
             bytes == Projections[new_size.width, new_size.height]
             w == write_buffer(self.projection_buffer, 0, bytes)
         IN  [self EXCEPT
                 !.size = new_size,
                 !.config = cfg,
                 !.surface = surface_configure(cfg),
                 !.projection_matrix_bytes = bytes,
                 !.projection_buffer = w.contents,
                 !.rectangles_to_render = <<>>,
                 !.calls = @ \o << Call("surface.configure", cfg.width, cfg.height),
                                   Call("queue.write_buffer(projection_buffer)", 0, Len(bytes)) >>]
    ELSE self

\* Context::resize
resize(self, new_size) ==
    IF resize_applies(new_size)
    THEN LET cfg == [self.config EXCEPT !.width = new_size.width,
                                        !.height = new_size.height]
             bytes == Projections[new_size.width, new_size.height]
             w == write_buffer(self.projection_buffer, 0, bytes)
         IN  [self EXCEPT
                 !.size = new_size,
                 !.config = cfg,
                 !.surface = surface_configure(cfg),
                 !.projection_matrix_bytes = bytes,
                 !.projection_buffer = w.contents,
                 !.calls = @ \o << Call("surface.configure", cfg.width, cfg.height),
                                   Call("queue.write_buffer(projection_buffer)", 0, Len(bytes)) >>]
    ELSE self

\* An update that empties the batch it has consumed.
update_clearing(self) == [self EXCEPT !.rectangles_to_render = <<>>]

\* Context::update
update(self) == self

\* A draw of the whole storage buffer.
vertex_count_of_capacity(len) == 6 * RectangleCapacity

vertex_count_per_quad_corner(len) == 4 * len

\* let vertex_count = 6 * self.rectangles_to_render.len() as u32;
vertex_count(len) == 6 * len

\* A frame that uploads at `offset` and ends with the calls of `ending`.
render_variant(self, acquired, offset, ending) ==
    LET s0 == Called(self, Call("surface.get_current_texture", 0, 0))
    IN
    IF acquired /= "Ok"
    THEN [s0 EXCEPT !.result = Err(acquired)]
    ELSE
    LET s1 == Called(Called(s0, Call("texture.create_view", 0, 0)),
                     Call("device.create_command_encoder", 0, 0))
        w == write_buffer(s1.rectangles_buffer, offset, s1.rectangles_to_render)
        s2 == Called(s1, Call("queue.write_buffer(rectangles_buffer)", offset,
                               Len(s1.rectangles_to_render)))
    IN
    IF ~w.ok
    THEN [s2 EXCEPT !.panicked = TRUE,
                    !.result = Panic("Queue::write_buffer: buffer overrun")]
    ELSE [s2 EXCEPT
             !.rectangles_buffer = w.contents,
             !.calls = @ \o << Call("encoder.begin_render_pass", 0, 0),
                               Call("render_pass.set_pipeline", 0, 0),
                               Call("render_pass.set_bind_group", 0, 0),
                               Call("render_pass.set_bind_group", 1, 0),
                               Call("render_pass.draw",
                                    vertex_count(Len(s1.rectangles_to_render)), 1) >>
                           \o ending,
             !.result = Unit]

\* A frame that presents the image before it submits the commands.
render_present_before_submit(self, acquired) ==
    render_variant(self, acquired, 0,
                   << Call("output.present", 0, 0), Call("queue.submit", 0, 0) >>)

\* A frame that uploads the batch behind the first record of the buffer.
render_upload_past_first(self, acquired) ==
    render_variant(self, acquired, 1,
                   << Call("queue.submit", 0, 0), Call("output.present", 0, 0) >>)

\* Context::render; `acquired` is what Surface::get_current_texture answers.
render(self, acquired) ==
    LET s0 == Called(self, Call("surface.get_current_texture", 0, 0))
    IN
    IF acquired /= "Ok"
    THEN [s0 EXCEPT !.result = Err(acquired)]
    ELSE
    LET s1 == Called(Called(s0, Call("texture.create_view", 0, 0)),
                     Call("device.create_command_encoder", 0, 0))
        w == write_buffer(s1.rectangles_buffer, 0, s1.rectangles_to_render)
        s2 == Called(s1, Call("queue.write_buffer(rectangles_buffer)", 0,
                               Len(s1.rectangles_to_render)))
    IN
    IF ~w.ok
    THEN [s2 EXCEPT !.panicked = TRUE,
                    !.result = Panic("Queue::write_buffer: buffer overrun")]
    ELSE [s2 EXCEPT
             !.rectangles_buffer = w.contents,
             !.calls = @ \o << Call("encoder.begin_render_pass", 0, 0),
                               Call("render_pass.set_pipeline", 0, 0),
                               Call("render_pass.set_bind_group", 0, 0),
                               Call("render_pass.set_bind_group", 1, 0),
                               Call("render_pass.draw",
                                    vertex_count(Len(s1.rectangles_to_render)), 1),
                               Call("queue.submit", 0, 0),
                               Call("output.present", 0, 0) >>,
             !.result = Unit]

\* The views of all textures but the one just pushed.
texture_views_missing_newest(texs) ==
    [i \in 1..(Len(texs) - 1) |-> texs[i].wgpu_texture_view]
        \o [i \in 1..(TextureSlots - Len(texs) + 1) |-> empty_texture.wgpu_texture_view]

\* The views collected from the newest texture back to the oldest.
texture_views_newest_first(texs) ==
    [i \in 1..Len(texs) |-> texs[Len(texs) + 1 - i].wgpu_texture_view]
        \o [i \in 1..(TextureSlots - Len(texs)) |-> empty_texture.wgpu_texture_view]

\* The views Context::create_texture_from_raw_data collects: those of the
\* registered textures, then the empty texture's for i in len..1000.
texture_views_of(texs) ==
    [i \in 1..Len(texs) |-> texs[i].wgpu_texture_view]
        \o [i \in 1..(TextureSlots - Len(texs)) |-> empty_texture.wgpu_texture_view]

index_of_added_after_push(texs) == Len(texs)

\* Ok(self.textures.len() - 1)
index_of_added(texs) == Len(texs) - 1

\* Context::create_texture_from_raw_data
Context_create_texture_from_raw_data(self, data) ==
    LET made == create_texture_from_raw_data(self, data)
        s1 == [made.self EXCEPT !.textures = Append(@, made.texture)]
        texture_views == texture_views_of(s1.textures)
        bg == create_bind_group(TextureSlots, texture_views)
        s2 == Called(s1, Call("device.create_bind_group", Len(texture_views), 0))
    IN
    IF ~bg.ok
    THEN [s2 EXCEPT !.panicked = TRUE,
                    !.result = Panic("Device::create_bind_group: binding array length")]
    ELSE [s2 EXCEPT !.textures_bind_group = bg.views,
                    !.result = Ok(index_of_added(s1.textures))]

\* create_texture_from_path without the check of the decoder's answer.
create_texture_from_path_unchecked_decode(self, path) ==
    LET img == Reader_open(path)
        decoded_img == Reader_decode(img.file)
    IN
    IF img.is_err
    THEN [self EXCEPT !.result = Err("Could not open file.")]
    ELSE Context_create_texture_from_raw_data(self, decoded_img.image)

\* Context::create_texture_from_path
create_texture_from_path(self, path) ==
    LET img == Reader_open(path)
        decoded_img == Reader_decode(img.file)
    IN
    IF img.is_err
    THEN [self EXCEPT !.result = Err("Could not open file.")]
    ELSE IF decoded_img.is_err
    THEN [self EXCEPT !.result = Err("Could not decode image data.")]
    ELSE Context_create_texture_from_raw_data(self, decoded_img.image)

(***************************************************************************)
(* lib.rs                                                                  *)
(***************************************************************************)
\* The first arm without its ElementState::Pressed pattern.
is_exit_event_any_state(event) ==
    \/ event.kind = "CloseRequested"
    \/ /\ event.kind = "KeyboardInput"
       /\ event.arg = "Escape"

\* The first arm of window_event: CloseRequested, or Escape pressed.
is_exit_event(event) ==
    \/ event.kind = "CloseRequested"
    \/ /\ event.kind = "KeyboardInput"
       /\ event.arg = "Escape"
       /\ event.arg2 = "Pressed"

event_loop_exit(self) ==
    [Called(self, Call("event_loop.exit", 0, 0)) EXCEPT !.exit_requested = TRUE]

\* The match without its Lost | Outdated arm.
after_render_no_reconfigure(r) ==
    CASE r.panicked -> r
      [] r.result.kind = "unit" -> r
      [] r.result.msg = "OutOfMemory" -> event_loop_exit(r)
      [] OTHER -> r

\* The match with Timeout handled as Lost and Outdated are.
after_render_timeout_reconfigures(r) ==
    CASE r.panicked -> r
      [] r.result.kind = "unit" -> r
      [] r.result.msg \in {"Lost", "Outdated", "Timeout"} -> resize(r, r.size)
      [] r.result.msg = "OutOfMemory" -> event_loop_exit(r)
      [] OTHER -> r

\* The match on self.render() in the RedrawRequested arm.
after_render(r) ==
    CASE r.panicked -> r
      [] r.result.kind = "unit" -> r
      [] r.result.msg \in {"Lost", "Outdated"} -> resize(r, r.size)
      [] r.result.msg = "OutOfMemory" -> event_loop_exit(r)
      [] OTHER -> r

\* ApplicationHandler::window_event
window_event(self, event) ==
    CASE is_exit_event(event) -> event_loop_exit(self)
      [] event.kind = "Resized" ->
            resize(self, PhysicalSize(event.width, event.height))
      [] event.kind = "RedrawRequested" ->
            LET s0 == [Called(self, Call("window.request_redraw", 0, 0))
                          EXCEPT !.redraw_requested = TRUE]
            IN  after_render(render(update(s0), event.arg))
      [] OTHER -> self

(***************************************************************************)
(* The state machine                                                       *)
(***************************************************************************)
\* Context::new, on a window of a positive inner size.
Init ==
    /\ \E w \in Dims \ {0}, h \in Dims \ {0} :
          /\ size = PhysicalSize(w, h)
          /\ config = [width |-> w, height |-> h]
          /\ projection_matrix_bytes = Projections[w, h]
          /\ projection_buffer = Projections[w, h]
    /\ surface = [configured |-> FALSE, width |-> 0, height |-> 0]
    /\ rectangles_to_render = InitialRectangles
    /\ rectangles_buffer = [i \in 1..RectangleCapacity |-> ZeroRectangle]
    /\ textures = <<>>
    /\ textures_bind_group =
          [i \in 1..TextureSlots |-> empty_texture.wgpu_texture_view]
    /\ device_textures = 1
    /\ calls = <<>>
    /\ result = Unit
    /\ handled = Event("new", 0, 0, "", "")
    /\ issued = <<>>
    /\ redraw_requested = FALSE
    /\ exit_requested = FALSE
    /\ panicked = FALSE

\* run_app delivers events until exit is requested; a panic ends the process.
Running == ~exit_requested /\ ~panicked

Handles(event, after) ==
    /\ handled' = event
    /\ Becomes(after)
    /\ issued' = IF after.result.kind = "ok"
                 THEN Append(issued, after.result.handle) ELSE issued

Resized ==
    /\ Running
    /\ \E w \in Dims, h \in Dims :
          LET event == Event("Resized", w, h, "", "")
          IN  Handles(event, window_event(Self, event))

\* Delivering the event consumes the pending redraw request.
RedrawRequested ==
    /\ Running
    /\ \E acquired \in Acquisitions :
          LET event == Event("RedrawRequested", 0, 0, acquired, "")
          IN  Handles(event,
                      window_event([Self EXCEPT !.redraw_requested = FALSE], event))

CloseRequested ==
    /\ Running
    /\ LET event == Event("CloseRequested", 0, 0, "", "")
       IN  Handles(event, window_event(Self, event))

KeyboardInput ==
    /\ Running
    /\ \E key \in Keys, state \in ElementStates :
          LET event == Event("KeyboardInput", 0, 0, key, state)
          IN  Handles(event, window_event(Self, event))

\* Any event of the `_ => {}` arm.
OtherEvent ==
    /\ Running
    /\ LET event == Event("Focused", 0, 0, "", "")
       IN  Handles(event, window_event(Self, event))

RegisterRaw ==
    /\ Running
    /\ \E data \in Images :
          Handles(Event("create_texture_from_raw_data", 0, 0, data, ""),
                  Context_create_texture_from_raw_data(Self, data))

RegisterPath ==
    /\ Running
    /\ \E path \in Paths :
          Handles(Event("create_texture_from_path", 0, 0, path, ""),
                  create_texture_from_path(Self, path))

\* The application's use of the public rectangles_to_render between frames.
PushRectangle ==
    /\ Running
    /\ Len(rectangles_to_render) <= RectangleCapacity
    /\ \E r \in PushedRectangles :
          Handles(Event("rectangles_to_render.push", 0, 0, "", ""),
                  [Self EXCEPT !.rectangles_to_render = Append(@, r)])

ClearRectangles ==
    /\ Running
    /\ Len(rectangles_to_render) > 0
    /\ Handles(Event("rectangles_to_render.clear", 0, 0, "", ""),
               [Self EXCEPT !.rectangles_to_render = <<>>])

Next ==
    \/ Resized
    \/ RedrawRequested
    \/ CloseRequested
    \/ KeyboardInput
    \/ OtherEvent
    \/ RegisterRaw
    \/ RegisterPath
    \/ PushRectangle
    \/ ClearRectangles

Spec == Init /\ [][Next]_vars

(***************************************************************************)
(* Properties                                                              *)
(***************************************************************************)
CallsOf(cs, fn) == {i \in DOMAIN cs : cs[i].fn = fn}

Registers(event) ==
    event.kind \in {"create_texture_from_raw_data", "create_texture_from_path"}

\* C1: the k-th successful texture registration returns handle k - 1, so the
\* handles issued are 0, 1, 2, ... without gap or repetition, whatever
\* resizes and frames come in between.
C1_HandlesSequential ==
    /\ \A k \in DOMAIN issued : issued[k] = k - 1
    /\ (Registers(handled) /\ result.kind = "ok") =>
          /\ issued /= <<>>
          /\ result.handle = issued[Len(issued)]

C1_Witness ==
    /\ handled.kind = "create_texture_from_raw_data"
    /\ result = Ok(1)
    /\ issued = <<0, 1>>
    /\ surface.configured
    /\ redraw_requested

\* C2: a registration made when the texture list already holds TextureSlots
\* textures returns an error and leaves the texture list, the handles issued
\* and the bind group as they were.
C2_CapacityExceeded ==
    [][(Len(textures) = TextureSlots
            /\ handled'.kind = "create_texture_from_raw_data")
        => /\ result'.kind = "err"
           /\ textures' = textures
           /\ issued' = issued
           /\ textures_bind_group' = textures_bind_group]_vars

\* C3: in every state the bind group holds exactly TextureSlots views, slot i
\* holds the view of the texture with handle i for every registered texture,
\* and every other slot holds the view of the empty texture.
C3_BindGroupSlots ==
    /\ Len(textures_bind_group) = TextureSlots
    /\ \A i \in 1..Len(textures) :
          /\ i <= Len(textures_bind_group)
          /\ textures_bind_group[i] = textures[i].wgpu_texture_view
    /\ \A i \in (Len(textures) + 1)..TextureSlots :
          textures_bind_group[i] = empty_texture.wgpu_texture_view

\* C4: a resize with a zero width or a zero height changes nothing and makes
\* no call on the surface or the queue; a resize with positive dimensions,
\* also one that follows an ignored one, is applied.
C4_ZeroResizeIgnored ==
    [][(handled'.kind = "Resized") =>
        IF handled'.width = 0 \/ handled'.height = 0
        THEN /\ size' = size
             /\ config' = config
             /\ surface' = surface
             /\ projection_matrix_bytes' = projection_matrix_bytes
             /\ projection_buffer' = projection_buffer
             /\ calls' = <<>>
        ELSE /\ size' = PhysicalSize(handled'.width, handled'.height)
             /\ config' = [width |-> handled'.width, height |-> handled'.height]
             /\ surface' = [configured |-> TRUE, width |-> handled'.width,
                            height |-> handled'.height]
             /\ projection_matrix_bytes' =
                   Projections[handled'.width, handled'.height]
             /\ projection_buffer' = projection_matrix_bytes'
             /\ CallsOf(calls', "surface.configure") /= {}]_vars

\* The window was resized to a positive size and a zero-height resize came
\* after it.
C4_Witness ==
    /\ handled.kind = "Resized"
    /\ handled.width > 0
    /\ handled.height = 0
    /\ surface.configured
    /\ size.width > 0 /\ size.height > 0
    /\ calls = <<>>

IsFrame(event, acquired) ==
    event.kind = "RedrawRequested" /\ event.arg \in acquired

\* C5: a frame whose acquisition succeeds, on a batch of n <= RectangleCapacity
\* records, binds the pipeline once and draws once, and the draw covers
\* vertices 0..6n in one instance.
C5_OneDrawOfSixVerticesPerRecord ==
    [][(IsFrame(handled', {"Ok"})
            /\ Len(rectangles_to_render) <= RectangleCapacity)
        => /\ Cardinality(CallsOf(calls', "render_pass.set_pipeline")) = 1
           /\ Cardinality(CallsOf(calls', "render_pass.draw")) = 1
           /\ \A i \in CallsOf(calls', "render_pass.draw") :
                 /\ calls'[i].a = 6 * Len(rectangles_to_render)
                 /\ calls'[i].b = 1]_vars

\* The frame of the initial batch of three rectangles: one draw of 18 vertices.
C5_Witness ==
    /\ IsFrame(handled, {"Ok"})
    /\ rectangles_to_render = InitialRectangles
    /\ \E i \in DOMAIN calls : calls[i] = Call("render_pass.draw", 18, 1)

\* C6: a frame on a batch of more than RectangleCapacity records fails at the
\* upload: the storage buffer keeps its contents, so no prefix of the batch is
\* written, and the frame draws, submits and presents nothing.
C6_OverlongBatchFails ==
    [][(IsFrame(handled', {"Ok"})
            /\ Len(rectangles_to_render) > RectangleCapacity)
        => /\ result'.kind = "panic"
           /\ panicked'
           /\ rectangles_buffer' = rectangles_buffer
           /\ CallsOf(calls', "render_pass.draw") = {}
           /\ CallsOf(calls', "queue.submit") = {}
           /\ CallsOf(calls', "output.present") = {}]_vars

C6_Witness ==
    /\ IsFrame(handled, {"Ok"})
    /\ Len(rectangles_to_render) = RectangleCapacity + 1
    /\ result.kind = "panic"
    /\ \E i \in DOMAIN calls : calls[i].fn = "queue.write_buffer(rectangles_buffer)"

\* C7: a frame whose acquisition fails with Lost or Outdated reconfigures the
\* surface with the stored size, leaves size, configuration and projection at
\* their values, does not ask the loop to exit, and has requested a redraw.
C7_RecoverableFrameReconfigures ==
    [][IsFrame(handled', {"Lost", "Outdated"})
        => /\ \E i \in DOMAIN calls' :
                 calls'[i] = Call("surface.configure", size.width, size.height)
           /\ surface' = [configured |-> TRUE, width |-> size.width,
                          height |-> size.height]
           /\ size' = size
           /\ config' = config
           /\ projection_matrix_bytes' = projection_matrix_bytes
           /\ projection_buffer' = projection_buffer
           /\ CallsOf(calls', "event_loop.exit") = {}
           /\ ~exit_requested'
           /\ ~panicked'
           /\ CallsOf(calls', "window.request_redraw") /= {}
           /\ redraw_requested']_vars

C7_Witness ==
    /\ IsFrame(handled, {"Lost", "Outdated"})
    /\ surface = [configured |-> TRUE, width |-> size.width, height |-> size.height]
    /\ redraw_requested
    /\ ~exit_requested

\* The events the claim lets ask for the exit.
AsksExit(e) ==
    \/ e = Event("CloseRequested", 0, 0, "", "")
    \/ e = Event("KeyboardInput", 0, 0, "Escape", "Pressed")
    \/ e = Event("RedrawRequested", 0, 0, "OutOfMemory", "")

\* C8: the loop is asked to exit by a close request, by Escape pressed and by
\* a frame whose acquisition fails with OutOfMemory, and by nothing else.
C8_ExitExactlyOnCloseEscapeOom ==
    [][/\ exit_requested' <=> AsksExit(handled')
       /\ (CallsOf(calls', "event_loop.exit") /= {}) <=> AsksExit(handled')]_vars

C8_Witness ==
    /\ exit_requested
    /\ IsFrame(handled, {"OutOfMemory"})
    /\ textures /= <<>>

\* The state of the renderer a failed call has to leave alone.
RendererState ==
    <<size, config, surface, projection_matrix_bytes, projection_buffer,
      rectangles_to_render, rectangles_buffer, textures, textures_bind_group,
      device_textures>>

FullFrame(cs) ==
    /\ CallsOf(cs, "queue.write_buffer(rectangles_buffer)") /= {}
    /\ CallsOf(cs, "render_pass.draw") /= {}
    /\ CallsOf(cs, "queue.submit") /= {}
    /\ CallsOf(cs, "output.present") /= {}

\* C9: a frame whose acquisition fails with Timeout changes nothing: it
\* uploads, submits and presents nothing and leaves size, configuration,
\* projection, textures, bind group and batch alone; the frame after it, if
\* acquired, is a full frame.
C9_TimeoutSkipsFrame ==
    [][/\ IsFrame(handled', {"Timeout"})
          => /\ UNCHANGED RendererState
             /\ calls' = << Call("window.request_redraw", 0, 0),
                            Call("surface.get_current_texture", 0, 0) >>
             /\ ~exit_requested'
             /\ ~panicked'
       /\ (IsFrame(handled, {"Timeout"}) /\ IsFrame(handled', {"Ok"})
              /\ Len(rectangles_to_render) <= RectangleCapacity)
          => /\ FullFrame(calls')
             /\ result' = Unit]_vars

C9_Witness ==
    /\ IsFrame(handled, {"Timeout"})
    /\ redraw_requested
    /\ textures /= <<>>
    /\ Len(calls) = 2

BadPaths == {"missing.png", "corrupt.png"}

\* C10: registering from a path that cannot be opened or decoded returns an
\* error without a call on the device or the queue and leaves textures,
\* handles and bind group alone; the next successful registration gets the
\* next handle.
C10_BadFileRejected ==
    [][/\ (handled'.kind = "create_texture_from_path" /\ handled'.arg \in BadPaths)
          => /\ result'.kind = "err"
             /\ calls' = <<>>
             /\ UNCHANGED RendererState
             /\ issued' = issued
       /\ (handled.kind = "create_texture_from_path" /\ handled.arg \in BadPaths
              /\ Registers(handled') /\ result'.kind = "ok")
          => /\ result'.handle = Len(textures)
             /\ result'.handle = Len(issued)]_vars

C10_Witness ==
    /\ handled = Event("create_texture_from_path", 0, 0, "corrupt.png", "")
    /\ result = Err("Could not decode image data.")
    /\ Len(textures) = 1
    /\ issued = <<0>>


\* C11: a handle once issued keeps its texture: after every later step the
\* texture list holds the same texture at that index and the bind group's
\* slot of that index holds that texture's view.
C11_IssuedHandlesKeepTheirTexture ==
    [][/\ \A k \in DOMAIN issued :
             /\ issued[k] + 1 <= Len(textures')
             /\ textures'[issued[k] + 1] = textures[issued[k] + 1]
       /\ \A k \in DOMAIN issued' :
             /\ issued'[k] + 1 <= Len(textures')
             /\ issued'[k] + 1 <= Len(textures_bind_group')
             /\ textures_bind_group'[issued'[k] + 1] =
                   textures'[issued'[k] + 1].wgpu_texture_view]_vars

\* Two handles were issued, a third registration failed at the full array,
\* and both handles still name their textures.
C11_Witness ==
    /\ issued = <<0, 1>>
    /\ Len(textures) > Len(issued)
    /\ panicked
    /\ textures[1].wgpu_texture = 1 /\ textures[2].wgpu_texture = 2
    /\ textures_bind_group[1] = 1 /\ textures_bind_group[2] = 2

\* C12: no frame, acquired or failed, changes the rectangle batch.
C12_FrameLeavesBatchAlone ==
    [][(handled'.kind = "RedrawRequested")
        => rectangles_to_render' = rectangles_to_render]_vars

\* A frame was drawn from a batch the application had rebuilt.
C12_Witness ==
    /\ IsFrame(handled, {"Ok"})
    /\ result = Unit
    /\ rectangles_to_render /= <<>>
    /\ rectangles_to_render /= InitialRectangles
    /\ rectangles_buffer[1] = rectangles_to_render[1]


\* The clip-space position of a point: the mat4x4 of the uniform buffer, read
\* column by column, times the point.
Transform(bytes, p) ==
    [r \in 1..4 |->
        FracAdd(FracAdd(FracMul(bytes[r], p[1]), FracMul(bytes[4 + r], p[2])),
                FracAdd(FracMul(bytes[8 + r], p[3]), FracMul(bytes[12 + r], p[4])))]

Point(x, y, z) == <<FracInt(x), FracInt(y), FracInt(z), FracInt(1)>>

\* The clip-space positions of the pixels of each window of the model under
\* the projection computed for it, computed once.
ClipPositions ==
    [w \in 1..MaxDim, h \in 1..MaxDim |->
        [x \in 0..w, y \in 0..h |-> Transform(Projections[w, h], Point(x, y, 0))]]

\* C13: the projection computed for a window of w by h pixels takes pixel
\* (x, y) to x' = 2x/w - 1 and y' = 1 - 2y/h: (0, 0) goes to the top-left
\* corner (-1, 1) of clip space and (w, h) to the bottom-right corner (1, -1).
C13_PixelsToClipCorners ==
    LET w == size.width
        h == size.height
        at == ClipPositions[w, h]
    IN  /\ projection_matrix_bytes = Projections[w, h]
        /\ at[0, 0][1] = FracInt(-1) /\ at[0, 0][2] = FracInt(1)
        /\ at[w, h][1] = FracInt(1) /\ at[w, h][2] = FracInt(-1)
        /\ \A x \in 0..w, y \in 0..h :
              /\ at[x, y][1] = Frac(2 * x - w, w)
              /\ at[x, y][2] = Frac(h - 2 * y, h)
              /\ at[x, y][4] = FracInt(1)

\* The projection of a window that is not square, after a resize.
C13_Witness ==
    /\ handled.kind = "Resized"
    /\ size = PhysicalSize(2, 1)
    /\ projection_matrix_bytes = calculate_projection_matrix(2, 1)
    /\ Transform(projection_matrix_bytes, Point(2, 1, 0))[1] = FracInt(1)
    /\ Transform(projection_matrix_bytes, Point(1, 0, 0))[1] = FracInt(0)


\* C14: every draw record carries an optional texture reference, a handle
\* into the texture array when it is present; the fragment stage samples the
\* texture of that handle for a record that has one and emits the flat colour
\* for a record that has none.  The record is the RectangleDrawData the
\* frame uploads; what the fragment stage does with the reference is
\* shader.wgsl's, which starts from the record having the field.
C14_RecordsCarryTextureReference ==
    \A i \in DOMAIN rectangles_to_render :
        LET r == rectangles_to_render[i]
        IN  /\ "texture" \in DOMAIN r
            /\ r.texture.present => r.texture.handle \in 0..(Len(textures) - 1)


\* C15: the projection in the uniform buffer is the one computed for the
\* width and height of the surface configuration, and the stored size is that
\* width and height, in every state and so at every frame's draw, whatever
\* resizes (also ignored ones) and frames came before.
C15_ProjectionFollowsConfiguration ==
    /\ size = PhysicalSize(config.width, config.height)
    /\ projection_buffer = Projections[config.width, config.height]
    /\ projection_matrix_bytes = projection_buffer
    /\ surface.configured =>
          /\ surface.width = config.width
          /\ surface.height = config.height

\* A frame drawn on a configured surface of a window that is not square.
C15_Witness ==
    /\ IsFrame(handled, {"Ok"})
    /\ CallsOf(calls, "render_pass.draw") /= {}
    /\ surface.configured
    /\ size = PhysicalSize(1, 2)
    /\ projection_buffer = calculate_projection_matrix(1, 2)


Once(cs, fn) == Cardinality(CallsOf(cs, fn)) = 1

Precedes(cs, f, g) == \A i \in CallsOf(cs, f), j \in CallsOf(cs, g) : i < j

Upload == "queue.write_buffer(rectangles_buffer)"

\* C16: a frame acquires the surface image, uploads the batch, encodes the
\* pass with its draw, submits and presents, in this order and within the one
\* handler; upload and draw happen only after a successful acquisition, a
\* present only after the submit, and a frame whose acquisition failed uploads,
\* submits and presents nothing.
C16_FrameOrder ==
    (handled.kind = "RedrawRequested") =>
        /\ Once(calls, "surface.get_current_texture")
        /\ (handled.arg /= "Ok") =>
              /\ CallsOf(calls, Upload) = {}
              /\ CallsOf(calls, "render_pass.draw") = {}
              /\ CallsOf(calls, "queue.submit") = {}
              /\ CallsOf(calls, "output.present") = {}
        /\ Precedes(calls, "surface.get_current_texture", Upload)
        /\ Precedes(calls, "surface.get_current_texture", "render_pass.draw")
        /\ \A p \in CallsOf(calls, "output.present") :
              \E s \in CallsOf(calls, "queue.submit") : s < p
        /\ (handled.arg = "Ok" /\ ~panicked) =>
              /\ Once(calls, Upload)
              /\ Once(calls, "encoder.begin_render_pass")
              /\ Once(calls, "render_pass.draw")
              /\ Once(calls, "queue.submit")
              /\ Once(calls, "output.present")
              /\ Precedes(calls, Upload, "encoder.begin_render_pass")
              /\ Precedes(calls, "encoder.begin_render_pass", "render_pass.draw")
              /\ Precedes(calls, "render_pass.draw", "queue.submit")
              /\ Precedes(calls, "queue.submit", "output.present")
              /\ calls[Len(calls)].fn = "output.present"

\* A full frame that followed textures being registered.
C16_Witness ==
    /\ IsFrame(handled, {"Ok"})
    /\ result = Unit
    /\ textures /= <<>>
    /\ Len(calls) = 12
    /\ calls[2].fn = "surface.get_current_texture"
    /\ calls[5].fn = Upload
    /\ calls[11].fn = "queue.submit"
    /\ calls[12].fn = "output.present"

BindsTextures(cs) ==
    \E i \in DOMAIN cs : cs[i] = Call("render_pass.set_bind_group", 1, 0)

\* C17: whenever a frame binds the texture bind group, the bind group holds
\* the views of exactly the textures registered so far, the one of the handle
\* returned last included, each in its slot, and the empty view elsewhere.
C17_FrameBindsCompleteBindGroup ==
    (handled.kind = "RedrawRequested" /\ BindsTextures(calls)) =>
        /\ Len(textures_bind_group) = TextureSlots
        /\ Len(textures) <= TextureSlots
        /\ Len(textures) = Len(issued)
        /\ \A i \in 1..Len(textures) :
              textures_bind_group[i] = textures[i].wgpu_texture_view
        /\ \A i \in (Len(textures) + 1)..TextureSlots :
              textures_bind_group[i] = empty_texture.wgpu_texture_view

\* A frame bound the bind group of a full texture array.
C17_Witness ==
    /\ IsFrame(handled, {"Ok"})
    /\ BindsTextures(calls)
    /\ Len(textures) = TextureSlots
    /\ issued /= <<>>
    /\ textures_bind_group[Len(issued)] = textures[Len(issued)].wgpu_texture_view

\* C18: a frame that is acquired, on a batch of n <= RectangleCapacity
\* records, writes the n records at offset 0 before the draw, so that record i
\* of the storage buffer is record i of the batch for every i < n, whatever
\* the buffer held before.
C18_UploadWholeBatchAtZero ==
    (IsFrame(handled, {"Ok"}) /\ Len(rectangles_to_render) <= RectangleCapacity) =>
        /\ \E i \in DOMAIN calls :
              calls[i] = Call(Upload, 0, Len(rectangles_to_render))
        /\ Once(calls, Upload)
        /\ Precedes(calls, Upload, "render_pass.draw")
        /\ CallsOf(calls, "render_pass.draw") /= {}
        /\ \A i \in 1..Len(rectangles_to_render) :
              rectangles_buffer[i] = rectangles_to_render[i]

\* A frame on a batch shorter than the one uploaded before it.
C18_Witness ==
    /\ IsFrame(handled, {"Ok"})
    /\ Len(rectangles_to_render) = 1
    /\ rectangles_buffer[1] = rectangles_to_render[1]
    /\ rectangles_buffer[2] = InitialRectangles[2]

\* The records of the storage buffer a draw of vertices 0..n covers, six
\* vertices to a record.
RecordsDrawn(n) == {v \div 6 : v \in 0..(n - 1)}

\* C20: a frame draws no record that an earlier frame left in the storage
\* buffer: its draw covers vertices 0..6n for its batch of n records, that is
\* records 0..n-1, each written by this frame's upload; for an empty batch it
\* covers nothing.
C20_StaleRecordsNotDrawn ==
    (IsFrame(handled, {"Ok"}) /\ ~panicked) =>
        \A d \in CallsOf(calls, "render_pass.draw") :
            /\ RecordsDrawn(calls[d].a) = 0..(Len(rectangles_to_render) - 1)
            /\ \A r \in RecordsDrawn(calls[d].a) :
                  rectangles_buffer[r + 1] = rectangles_to_render[r + 1]
            /\ rectangles_to_render = <<>> => calls[d].a = 0

\* A frame on an empty batch while the buffer still holds an earlier frame's
\* records.
C20_Witness ==
    /\ IsFrame(handled, {"Ok"})
    /\ rectangles_to_render = <<>>
    /\ rectangles_buffer[1] = InitialRectangles[1]
    /\ \E i \in DOMAIN calls : calls[i] = Call("render_pass.draw", 0, 1)


\* C19: the projection remaps depth on top of the orthographic transform with
\* near = -1 and far = 1: a point of the near plane (z = 1 before the
\* transform, cgmath's planes lying at -near and -far) gets clip depth 0, a
\* point of the far plane (z = -1) gets 1, the depth is linear in between, and
\* w stays 1 for every point.
C19_DepthRemap ==
    LET near == Transform(projection_buffer, Point(0, 0, 1))
        middle == Transform(projection_buffer, Point(0, 0, 0))
        far == Transform(projection_buffer, Point(0, 0, -1))
    IN  /\ near[4] = FracInt(1) /\ middle[4] = FracInt(1) /\ far[4] = FracInt(1)
        /\ near[3] = FracInt(0)
        /\ middle[3] = Frac(1, 2)
        /\ far[3] = FracInt(1)


\* A step in which Context::resize ran: the Resized handler, applied or
\* ignored, or the frame that reconfigures a lost or outdated surface.
Resizes(event, cs) ==
    event.kind = "Resized" \/ CallsOf(cs, "surface.configure") /= {}

\* C21: resize and registration touch disjoint state. A resize, applied or
\* ignored, leaves the registered textures, the bind group and the rectangle
\* batch as they were; a texture registration, successful or failed, leaves
\* the stored size, the surface configuration, the projection and the
\* rectangle batch as they were.
C21_ResizeAndRegistrationDisjoint ==
    [][/\ Resizes(handled', calls') =>
            /\ textures' = textures
            /\ device_textures' = device_textures
            /\ textures_bind_group' = textures_bind_group
            /\ rectangles_to_render' = rectangles_to_render
       /\ Registers(handled') =>
            /\ size' = size
            /\ config' = config
            /\ surface' = surface
            /\ projection_matrix_bytes' = projection_matrix_bytes
            /\ projection_buffer' = projection_buffer
            /\ rectangles_to_render' = rectangles_to_render
            /\ rectangles_buffer' = rectangles_buffer]_vars

\* A resize was applied with one texture registered and a full batch
\* collected, and all three are still there after it.
C21_Witness ==
    /\ handled.kind = "Resized"
    /\ CallsOf(calls, "surface.configure") /= {}
    /\ size = PhysicalSize(handled.width, handled.height)
    /\ Len(textures) = 1
    /\ issued = <<0>>
    /\ textures_bind_group[1] = textures[1].wgpu_texture_view
    /\ Len(rectangles_to_render) = RectangleCapacity

====
